---- MODULE Spec2Model ----
(***************************************************************************)
(* The tool-call handler of the LanceDB MCP server (src/index.ts).         *)
(*                                                                         *)
(* State: the store behind the connection handle `db` (its tables), and,   *)
(* per request being handled, the position of the async handler (the await *)
(* it is suspended at), its request, its locals and its response.  The     *)
(* store and the embedding service are external collaborators: they are    *)
(* modelled by their interface (open/create table, add rows, schema,       *)
(* vector search, table names; text -> vector).  Under Spec they perform   *)
(* every operation, the only error being openTable on a missing table and  *)
(* createTable on an existing one; under SpecFault any awaited call may    *)
(* also raise an error.                                                    *)
(***************************************************************************)
EXTENDS Integers, Sequences, FiniteSets, TLC

VARIABLES
    tables,     \* the store: table name -> [rows, schema], for the tables that exist
    pc,         \* per slot: the await the handler is suspended at
    req,        \* per slot: request.params = [name, args]
    lv,         \* per slot: the handler's locals (searchVector, vectorColumnName)
    resp,       \* per slot: the value the handler returned
    pre,        \* history: the store when the call arrived
    ops,        \* history: the store operations the call issued, in order
    embeds,     \* history: the embeddings the embedding service returned to the call
    sent,       \* history: the vector the call passed to table.vectorSearch
    raised,     \* history: the collaborator errors raised to the call, in order
    thrown,     \* history: the error message that reached the outer catch
    nresp,      \* history: how many responses the call produced
    created,    \* history: the tables a successful vector_add created
    hadFailure, \* history: some earlier call was answered with isError = true
    running,    \* the server process is alive
    boot,       \* the position of the startup code
    dbPath,     \* the parsed --db-path
    showHelp,   \* the parsed --help / -h
    db,         \* the connection handle
    exitCode,   \* the code the process exited with
    dbAssigns,  \* history: how many times db was assigned
    failure,    \* history: what made the startup fail
    accepted    \* history: a request has been accepted

\* the startup state, which no handler touches
startup == <<boot, dbPath, showHelp, db, exitCode, dbAssigns, failure>>

vars == <<tables, pc, req, lv, resp, pre, ops, embeds, sent, raised, thrown,
          nresp, created, hadFailure, running, startup, accepted>>

(***************************************************************************)
(* Bounds of the model and constants of the program.                       *)
(***************************************************************************)
MaxRows == 2            \* a table holds at most this many rows
ShortDim == 2           \* length of the short vectors (the spec's example)
LongDim == 11           \* length of the long vectors
MinListSize == 10       \* field.type.listSize > 10
FixedSizeListTypeId == 16   \* field.type.typeId === 16
DefaultLimit == 10      \* limit = 10

Slots == {1, 2}
TableNames == {"docs", "notes"}

\* An optional value: <<>> is undefined, <<v>> is v.
None == <<>>
Some(v) == <<v>>
IsDef(o) == o # <<>>
Val(o) == o[1]

ShortVec == [i \in 1..ShortDim |-> i]
LongVec == [i \in 1..LongDim |-> 1]
OtherLongVec == [i \in 1..LongDim |-> 2]

RecA == [vector |-> ShortVec, title |-> "a"]
RecB == [vector |-> LongVec, title |-> "b"]
BadRecord == [title |-> "a"]
Records == {RecA, RecB}

RECURSIVE SeqsUpTo(_, _)
SeqsUpTo(S, n) ==
    IF n = 0 THEN {<<>>}
    ELSE LET shorter == SeqsUpTo(S, n - 1)
         IN shorter \cup {Append(s, x) : s \in {t \in shorter : Len(t) = n - 1}, x \in S}

Batches == SeqsUpTo(Records, MaxRows)

NoArgs ==
    [table_name |-> None, vectors |-> None, query_vector |-> None,
     query_text |-> None, limit |-> None, distance_type |-> None,
     where |-> None, with_vectors |-> None]

(***************************************************************************)
(* Messages are sequences of text pieces; s.includes(piece) is membership. *)
(***************************************************************************)
Includes(msg, piece) == \E i \in 1..Len(msg) : msg[i] = piece

NotFoundError(name) == <<"Table", name, "does not exist">>
AlreadyExistsError(name) == <<"Table", name, "already exists">>
IoError == <<"IO error">>
AddFieldError == <<"Field", "does not exist", "in schema">>
OllamaError == <<"Ollama API error:", "500">>
NoQueryError == <<"Either query_vector or query_text must be provided">>
NoVectorColumnError == <<"No vector column found in the table">>

\* `${error}` of an Error object
ErrorToString(msg) == <<"Error:">> \o msg

(***************************************************************************)
(* Argument validation (the zod schemas).                                  *)
(***************************************************************************)
DistanceTypes == {"l2", "cosine", "dot"}

ValidAddArgs(a) ==
    /\ IsDef(a.table_name)
    /\ IsDef(a.vectors)
    /\ \A i \in 1..Len(Val(a.vectors)) : "vector" \in DOMAIN Val(a.vectors)[i]


\* faulty variant: the schema without its refine
ValidSearchArgsNoRefine(a) ==
    /\ IsDef(a.table_name)
    /\ IsDef(a.distance_type) => Val(a.distance_type) \in DistanceTypes

\* faulty variant: the refine demands exactly one of the two
ValidSearchArgsExactlyOne(a) ==
    /\ IsDef(a.table_name)
    /\ IsDef(a.distance_type) => Val(a.distance_type) \in DistanceTypes
    /\ IsDef(a.query_vector) # IsDef(a.query_text)

ValidSearchArgs(a) ==
    /\ IsDef(a.table_name)
    /\ IsDef(a.distance_type) => Val(a.distance_type) \in DistanceTypes
    /\ IsDef(a.query_vector) \/ IsDef(a.query_text)

InvalidArgsError(tool) == <<"Invalid arguments for", tool, ":", "ZodError">>

\* a destructuring default: `limit = 10`
Default(o, d) == IF IsDef(o) THEN Val(o) ELSE d

\* `if (where)`, `else if (query_text)`: a string is truthy unless empty
TruthyString(o) == IsDef(o) /\ Val(o) # ""

(***************************************************************************)
(* Responses.                                                              *)
(***************************************************************************)
NoResp == [isError |-> FALSE, kind |-> "none", text |-> <<>>, rows |-> <<>>, names |-> {}]

TextResponse(t) == [NoResp EXCEPT !.kind = "text", !.text = t]
RowsResponse(rs) == [NoResp EXCEPT !.kind = "rows", !.rows = rs]
NamesResponse(ns) == [NoResp EXCEPT !.kind = "names", !.names = ns]

AddedText(n, name) == <<"Added", ToString(n), "vectors to table", name>>

\* faulty variant: one text for both branches
CreatedTextAsAdded(n, name) == <<"Added", ToString(n), "vectors to table", name>>

CreatedText(n, name) == <<"Created table", name, "and added", ToString(n), "vectors">>

SearchErrorMsg(name, err) == <<"Error searching table", name, ":">> \o ErrorToString(err)
ListErrorMsg(err) == <<"Error listing tables", ":">> \o ErrorToString(err)
UnknownToolError(name) == <<"Unknown tool:", name>>


\* faulty variant: the failure flag is not set
OuterCatchNoFlag(msg) == [NoResp EXCEPT !.kind = "text", !.text = <<"Error:">> \o msg]

\* the outer catch: text `Error: ${errorMessage}`, isError true
OuterCatch(msg) == [NoResp EXCEPT !.isError = TRUE, !.kind = "text", !.text = <<"Error:">> \o msg]

(***************************************************************************)
(* The store collaborator, by its interface.                               *)
(***************************************************************************)
EmptyStore == [n \in {} |-> [rows |-> <<>>, schema |-> <<>>]]

\* the schema is inferred from the first batch: the "vector" column is a
\* fixed-size list whose size is the vector's length
InferSchema(data) ==
    IF data = <<>> THEN <<>>
    ELSE <<[name |-> "vector", typeId |-> FixedSizeListTypeId, listSize |-> Len(data[1].vector)],
           [name |-> "title", typeId |-> 5, listSize |-> 0]>>

StoreCreateTable(tb, name, data) ==
    [n \in DOMAIN tb \cup {name} |->
        IF n = name THEN [rows |-> data, schema |-> InferSchema(data)] ELSE tb[n]]

StoreAdd(tb, name, data) == [tb EXCEPT ![name].rows = @ \o data]

StoreTableNames(tb) == DOMAIN tb

MatchWhere(row, w) == (IsDef(w) /\ Val(w) = "title = 'a'") => row.title = "a"

Take(s, n) == SubSeq(s, 1, IF n < Len(s) THEN n ELSE Len(s))

\* query.toArray(): the rows passing the filter, at most `limit` of them, each with
\* every column of the table and the distance the store computed
StoreToArray(tb, name, q) ==
    LET hits == Take(SelectSeq(tb[name].rows, LAMBDA row : MatchWhere(row, q.where)), q.limit)
    IN [i \in 1..Len(hits) |->
            [vector |-> hits[i].vector, title |-> hits[i].title, _distance |-> "d"]]

\* what the embedding service may answer
Embeddings == {LongVec, OtherLongVec}

\* the errors a failing collaborator may raise
StoreFaults == {IoError, AddFieldError}

(***************************************************************************)
(* The pure steps of the vector_search handler.                            *)
(***************************************************************************)

\* faulty variant: the text branch is missing
ResolveQueryNoText(a) ==
    IF IsDef(a.query_vector) THEN "vector"
    ELSE "none"

\* which branch of `if (query_vector) ... else if (query_text) ... else throw`
ResolveQuery(a) ==
    IF IsDef(a.query_vector) THEN "vector"
    ELSE IF TruthyString(a.query_text) THEN "text"
    ELSE "none"

RECURSIVE FindFrom(_, _)
FindFrom(schema, i) ==
    IF i > Len(schema) THEN None
    ELSE IF schema[i].typeId = FixedSizeListTypeId /\ schema[i].listSize > MinListSize
         THEN Some(schema[i])
         ELSE FindFrom(schema, i + 1)

\* schema.fields.find(field => field.type.typeId === 16 && field.type.listSize > 10)
FindVectorField(schema) == FindFrom(schema, 1)

\* table.vectorSearch(searchVector).distanceType(distance_type).limit(limit) [.where(where)]
BuildQuery(searchVector, a) ==
    [vector |-> searchVector,
     distanceType |-> Default(a.distance_type, "cosine"),
     limit |-> Default(a.limit, DefaultLimit),
     where |-> IF TruthyString(a.where) THEN a.where ELSE None]


\* faulty variant: the delete is lost
StripFieldKeepsAll(item, col) == item

\* { ...item } without the vector column
StripField(item, col) == [f \in DOMAIN item \ {col} |-> item[f]]

ProcessResults(results, with_vectors, col) ==
    IF ~with_vectors
    THEN [i \in 1..Len(results) |-> StripField(results[i], col)]
    ELSE results

\* faulty variants: the write drops the first record
AddArgsDropsFirst(a) == IF Val(a.vectors) = <<>> THEN <<>> ELSE Tail(Val(a.vectors))
CreateTableArgsDropsFirst(a) ==
    [name |-> Val(a.table_name),
     data |-> IF Val(a.vectors) = <<>> THEN <<>> ELSE Tail(Val(a.vectors))]

\* the arguments of the two writes of vector_add
AddArgs(a) == Val(a.vectors)
CreateTableArgs(a) == [name |-> Val(a.table_name), data |-> Val(a.vectors)]

\* faulty variant: the names are dropped
ListTablesResultEmpty(names) == {}

\* the list_tables payload
ListTablesResult(names) == names

(***************************************************************************)
(* The calls a client may send.                                            *)
(***************************************************************************)
NoReq == [name |-> "", args |-> NoArgs]
NoLocals == [searchVector |-> None, vectorColumnName |-> ""]

OptNames == {None} \cup {Some(n) : n \in TableNames}

AddCalls ==
    {[name |-> "vector_add", args |-> [NoArgs EXCEPT !.table_name = tn, !.vectors = vs]] :
        tn \in OptNames,
        vs \in {None, Some(<<BadRecord>>)} \cup {Some(b) : b \in Batches}}

BaseSearchCalls ==
    {[name |-> "vector_search",
      args |-> [NoArgs EXCEPT !.table_name = Some(tn), !.query_vector = qv,
                              !.query_text = qt, !.limit = lim, !.with_vectors = wv]] :
        tn \in TableNames,
        qv \in {None, Some(ShortVec), Some(LongVec)},
        qt \in {None, Some(""), Some("hello")},
        lim \in {None, Some(1)},
        wv \in {None, Some(FALSE), Some(TRUE)}}

OneSearch == [NoArgs EXCEPT !.table_name = Some("docs"), !.query_vector = Some(LongVec)]

OtherSearchCalls ==
    {[name |-> "vector_search", args |-> a] :
        a \in {[OneSearch EXCEPT !.table_name = None],
               [OneSearch EXCEPT !.distance_type = Some("l2")],
               [OneSearch EXCEPT !.distance_type = Some("manhattan")],
               [OneSearch EXCEPT !.where = Some("title = 'a'")],
               [OneSearch EXCEPT !.where = Some("")]}}

Calls ==
    AddCalls \cup BaseSearchCalls \cup OtherSearchCalls
    \cup {[name |-> "list_tables", args |-> NoArgs], [name |-> "drop_table", args |-> NoArgs]}

\* the records that calls still being handled are about to write to a table
RECURSIVE PendingRows(_, _)
PendingRows(name, slots) ==
    IF slots = {} THEN 0
    ELSE LET r == CHOOSE x \in slots : TRUE
             mine == IF /\ pc[r] \notin {"idle", "done"}
                        /\ req[r].name = "vector_add"
                        /\ ValidAddArgs(req[r].args)
                        /\ Val(req[r].args.table_name) = name
                     THEN Len(Val(req[r].args.vectors)) ELSE 0
         IN mine + PendingRows(name, slots \ {r})

\* the rows a table would hold after the call (the model's cap on table size)
RowsAfter(c) ==
    IF c.name = "vector_add" /\ ValidAddArgs(c.args)
    THEN Len(Val(c.args.vectors))
         + PendingRows(Val(c.args.table_name), Slots)
         + (IF Val(c.args.table_name) \in DOMAIN tables
            THEN Len(tables[Val(c.args.table_name)].rows) ELSE 0)
    ELSE 0

\* the calls of the concurrent runs: the well-formed vector_add calls
ConcurrentCalls ==
    {c \in AddCalls : ValidAddArgs(c.args) /\ Len(Val(c.args.vectors)) >= 1}

(***************************************************************************)
(* Init: the process starts on an empty store; no call is in hand.         *)
(***************************************************************************)
Init ==
    /\ tables = EmptyStore
    /\ pc = [r \in Slots |-> "idle"]
    /\ req = [r \in Slots |-> NoReq]
    /\ lv = [r \in Slots |-> NoLocals]
    /\ resp = [r \in Slots |-> NoResp]
    /\ pre = [r \in Slots |-> EmptyStore]
    /\ ops = [r \in Slots |-> <<>>]
    /\ embeds = [r \in Slots |-> <<>>]
    /\ sent = [r \in Slots |-> None]
    /\ raised = [r \in Slots |-> <<>>]
    /\ thrown = [r \in Slots |-> None]
    /\ nresp = [r \in Slots |-> 0]
    /\ created = {}
    /\ hadFailure = FALSE
    /\ running = TRUE
    /\ boot = "parse"
    /\ dbPath = None
    /\ showHelp = FALSE
    /\ db = "unset"
    /\ exitCode = None
    /\ dbAssigns = 0
    /\ failure = "none"
    /\ accepted = FALSE

(***************************************************************************)
(* Startup: the command line, connectDB, server.connect.                   *)
(***************************************************************************)
Argvs ==
    {<<>>,
     <<"--db-path">>,
     <<"--db-path", "/data/db">>,
     <<"--help">>,
     <<"-h", "--db-path", "/data/db">>,
     <<"--db-path", "/data/db", "--help">>,
     <<"--ollama-model", "--help", "--db-path", "/data/db">>,
     <<"--ollama-endpoint", "http://host/api", "--db-path", "/data/db">>,
     <<"/data/db">>}

\* args[++i]
ArgAt(args, i) == IF i <= Len(args) THEN Some(args[i]) ELSE None

\* the loop over process.argv.slice(2)
RECURSIVE ParseArgs(_, _, _)
ParseArgs(args, i, st) ==
    IF i > Len(args) THEN st
    ELSE CASE args[i] = "--db-path" ->
                ParseArgs(args, i + 2, [st EXCEPT !.dbPath = ArgAt(args, i + 1)])
           [] args[i] \in {"--ollama-endpoint", "--ollama-model"} ->
                ParseArgs(args, i + 2, st)
           [] args[i] \in {"--help", "-h"} ->
                ParseArgs(args, i + 1, [st EXCEPT !.showHelp = TRUE])
           [] OTHER -> ParseArgs(args, i + 1, st)

Exit(code, why) ==
    /\ boot' = "exited"
    /\ running' = FALSE
    /\ exitCode' = Some(code)
    /\ failure' = why

StartupQuiet ==
    UNCHANGED <<tables, pc, req, lv, resp, pre, ops, embeds, sent, raised, thrown,
                nresp, created, hadFailure, accepted>>

\* the top-level code before runServer(): parse, help, the required --db-path
ParseCommandLine ==
    /\ boot = "parse"
    /\ \E argv \in Argvs :
        LET st == ParseArgs(argv, 1, [dbPath |-> None, showHelp |-> FALSE]) IN
        /\ dbPath' = st.dbPath
        /\ showHelp' = st.showHelp
        /\ IF st.showHelp THEN Exit(0, "none")
           ELSE IF ~IsDef(st.dbPath) THEN Exit(1, "args")
           ELSE /\ boot' = "connect"
                /\ UNCHANGED <<running, exitCode, failure>>
    /\ UNCHANGED <<db, dbAssigns>>
    /\ StartupQuiet

\* connectDB: lancedb.connect resolves
ConnectDB ==
    /\ boot = "connect"
    /\ db' = "connection"
    /\ dbAssigns' = dbAssigns + 1
    /\ boot' = "transport"
    /\ UNCHANGED <<dbPath, showHelp, running, exitCode, failure>>
    /\ StartupQuiet

\* connectDB: lancedb.connect rejects; the catch exits
ConnectDBFails ==
    /\ boot = "connect"
    /\ Exit(1, "connect")
    /\ UNCHANGED <<dbPath, showHelp, db, dbAssigns>>
    /\ StartupQuiet

\* runServer: server.connect(transport) resolves
ServerConnect ==
    /\ boot = "transport"
    /\ boot' = "serving"
    /\ UNCHANGED <<dbPath, showHelp, db, dbAssigns, running, exitCode, failure>>
    /\ StartupQuiet

\* runServer: server.connect(transport) rejects; runServer().catch exits
ServerConnectFails ==
    /\ boot = "transport"
    /\ Exit(1, "transport")
    /\ UNCHANGED <<dbPath, showHelp, db, dbAssigns>>
    /\ StartupQuiet

Boot ==
    \/ ParseCommandLine
    \/ ConnectDB
    \/ ConnectDBFails
    \/ ServerConnect
    \/ ServerConnectFails

(***************************************************************************)
(* How a step of the handler ends: suspended at the next await, returning  *)
(* a response, or throwing to the outer catch.                             *)
(***************************************************************************)
Await(r, next, op) ==
    /\ pc' = [pc EXCEPT ![r] = next]
    /\ ops' = [ops EXCEPT ![r] = Append(@, op)]
    /\ UNCHANGED <<resp, nresp, thrown>>

Return(r, response) ==
    /\ pc' = [pc EXCEPT ![r] = "done"]
    /\ resp' = [resp EXCEPT ![r] = response]
    /\ nresp' = [nresp EXCEPT ![r] = @ + 1]
    /\ UNCHANGED <<ops, thrown>>

Throw(r, msg) ==
    /\ pc' = [pc EXCEPT ![r] = "done"]
    /\ resp' = [resp EXCEPT ![r] = OuterCatch(msg)]
    /\ nresp' = [nresp EXCEPT ![r] = @ + 1]
    /\ thrown' = [thrown EXCEPT ![r] = Some(msg)]
    /\ UNCHANGED ops

Raise(r, err) == raised' = [raised EXCEPT ![r] = Append(@, err)]

\* the catch around openTable and table.add of vector_add
AddCatch(r, err) ==
    IF Includes(err, "does not exist")
    THEN Await(r, "createTable", "createTable")
    ELSE Throw(r, err)

\* the catch of vector_search
SearchCatch(r, err) == Throw(r, SearchErrorMsg(Val(req[r].args.table_name), err))

\* the catch of list_tables
ListCatch(r, err) == Throw(r, ListErrorMsg(err))

At(r, tool, where) == pc[r] = where /\ req[r].name = tool

(***************************************************************************)
(* A call arrives.                                                         *)
(***************************************************************************)
\* faulty variant: the transport is connected without awaiting connectDB
CanAcceptBeforeConnect == boot \in {"connect", "transport", "serving"}

\* requests arrive once server.connect(transport) has run, after `await connectDB()`
CanAccept == boot = "serving"

CallFrom(r, calls) ==
    /\ running
    /\ CanAccept
    /\ pc[r] = "idle"
    /\ \E c \in calls :
        /\ RowsAfter(c) <= MaxRows
        /\ req' = [req EXCEPT ![r] = c]
    /\ pc' = [pc EXCEPT ![r] = "dispatch"]
    /\ pre' = [pre EXCEPT ![r] = tables]
    /\ accepted' = TRUE
    /\ UNCHANGED <<tables, lv, resp, ops, embeds, sent, raised, thrown, nresp,
                   created, hadFailure, running, startup>>

Call(r) == CallFrom(r, Calls)

\* the response is handed to the transport and the slot is free again
Deliver(r) ==
    /\ pc[r] = "done"
    /\ hadFailure' = (hadFailure \/ resp[r].isError)
    /\ pc' = [pc EXCEPT ![r] = "idle"]
    /\ req' = [req EXCEPT ![r] = NoReq]
    /\ lv' = [lv EXCEPT ![r] = NoLocals]
    /\ resp' = [resp EXCEPT ![r] = NoResp]
    /\ pre' = [pre EXCEPT ![r] = EmptyStore]
    /\ ops' = [ops EXCEPT ![r] = <<>>]
    /\ embeds' = [embeds EXCEPT ![r] = <<>>]
    /\ sent' = [sent EXCEPT ![r] = None]
    /\ raised' = [raised EXCEPT ![r] = <<>>]
    /\ thrown' = [thrown EXCEPT ![r] = None]
    /\ nresp' = [nresp EXCEPT ![r] = 0]
    /\ UNCHANGED <<tables, created, running, startup, accepted>>

(***************************************************************************)
(* vector_add                                                              *)
(***************************************************************************)
DispatchAdd(r) ==
    /\ At(r, "vector_add", "dispatch")
    /\ IF ValidAddArgs(req[r].args)
       THEN Await(r, "openTable", "openTable")
       ELSE Throw(r, InvalidArgsError("vector_add"))
    /\ UNCHANGED <<tables, req, lv, pre, embeds, sent, raised, created, hadFailure, running, startup, accepted>>

AddOpenTable(r) ==
    /\ At(r, "vector_add", "openTable")
    /\ LET name == Val(req[r].args.table_name) IN
       IF name \in DOMAIN tables
       THEN Await(r, "add", "add") /\ UNCHANGED raised
       ELSE Raise(r, NotFoundError(name)) /\ AddCatch(r, NotFoundError(name))
    /\ UNCHANGED <<tables, req, lv, pre, embeds, sent, created, hadFailure, running, startup, accepted>>

AddTableAdd(r) ==
    /\ At(r, "vector_add", "add")
    /\ LET name == Val(req[r].args.table_name)
           data == AddArgs(req[r].args) IN
       /\ tables' = StoreAdd(tables, name, data)
       /\ Return(r, TextResponse(AddedText(Len(Val(req[r].args.vectors)), name)))
    /\ UNCHANGED <<req, lv, pre, embeds, sent, raised, created, hadFailure, running, startup, accepted>>

AddCreateTable(r) ==
    /\ At(r, "vector_add", "createTable")
    /\ LET name == Val(req[r].args.table_name)
           call == CreateTableArgs(req[r].args) IN
       IF call.name \in DOMAIN tables
       THEN /\ Raise(r, AlreadyExistsError(call.name))
            /\ Throw(r, AlreadyExistsError(call.name))
            /\ UNCHANGED <<tables, created>>
       ELSE /\ tables' = StoreCreateTable(tables, call.name, call.data)
            /\ created' = created \cup {call.name}
            /\ Return(r, TextResponse(CreatedText(Len(Val(req[r].args.vectors)), name)))
            /\ UNCHANGED raised
    /\ UNCHANGED <<req, lv, pre, embeds, sent, hadFailure, running, startup, accepted>>

(***************************************************************************)
(* vector_search                                                           *)
(***************************************************************************)
DispatchSearch(r) ==
    /\ At(r, "vector_search", "dispatch")
    /\ IF ValidSearchArgs(req[r].args)
       THEN Await(r, "openTable", "openTable")
       ELSE Throw(r, InvalidArgsError("vector_search"))
    /\ UNCHANGED <<tables, req, lv, pre, embeds, sent, raised, created, hadFailure, running, startup, accepted>>

SearchOpenTable(r) ==
    /\ At(r, "vector_search", "openTable")
    /\ LET a == req[r].args
           name == Val(a.table_name) IN
       IF name \notin DOMAIN tables
       THEN Raise(r, NotFoundError(name)) /\ SearchCatch(r, NotFoundError(name)) /\ UNCHANGED lv
       ELSE /\ UNCHANGED raised
            /\ CASE ResolveQuery(a) = "vector" ->
                      /\ lv' = [lv EXCEPT ![r].searchVector = a.query_vector]
                      /\ Await(r, "schema", "schema")
                 [] ResolveQuery(a) = "text" ->
                      /\ Await(r, "embedding", "embedding")
                      /\ UNCHANGED lv
                 [] OTHER ->
                      /\ SearchCatch(r, NoQueryError)
                      /\ UNCHANGED lv
    /\ UNCHANGED <<tables, req, pre, embeds, sent, created, hadFailure, running, startup, accepted>>

SearchEmbedding(r) ==
    /\ At(r, "vector_search", "embedding")
    /\ \E e \in Embeddings :
        /\ embeds' = [embeds EXCEPT ![r] = Append(@, e)]
        /\ lv' = [lv EXCEPT ![r].searchVector = Some(e)]
    /\ Await(r, "schema", "schema")
    /\ UNCHANGED <<tables, req, pre, sent, raised, created, hadFailure, running, startup, accepted>>

SearchSchema(r) ==
    /\ At(r, "vector_search", "schema")
    /\ LET name == Val(req[r].args.table_name)
           vectorField == FindVectorField(tables[name].schema) IN
       IF ~IsDef(vectorField)
       THEN SearchCatch(r, NoVectorColumnError) /\ UNCHANGED <<lv, sent>>
       ELSE /\ lv' = [lv EXCEPT ![r].vectorColumnName = Val(vectorField).name]
            /\ sent' = [sent EXCEPT ![r] = lv[r].searchVector]
            /\ Await(r, "toArray", "vectorSearch")
    /\ UNCHANGED <<tables, req, pre, embeds, raised, created, hadFailure, running, startup, accepted>>

SearchToArray(r) ==
    /\ At(r, "vector_search", "toArray")
    /\ LET a == req[r].args
           query == BuildQuery(Val(lv[r].searchVector), a)
           originalResults == StoreToArray(tables, Val(a.table_name), query) IN
       Return(r, RowsResponse(ProcessResults(originalResults,
                                             Default(a.with_vectors, FALSE),
                                             lv[r].vectorColumnName)))
    /\ UNCHANGED <<tables, req, lv, pre, embeds, sent, raised, created, hadFailure, running, startup, accepted>>

(***************************************************************************)
(* list_tables and the default case                                        *)
(***************************************************************************)
DispatchList(r) ==
    /\ At(r, "list_tables", "dispatch")
    /\ Await(r, "tableNames", "tableNames")
    /\ UNCHANGED <<tables, req, lv, pre, embeds, sent, raised, created, hadFailure, running, startup, accepted>>

ListTableNames(r) ==
    /\ At(r, "list_tables", "tableNames")
    /\ Return(r, NamesResponse(ListTablesResult(StoreTableNames(tables))))
    /\ UNCHANGED <<tables, req, lv, pre, embeds, sent, raised, created, hadFailure, running, startup, accepted>>

DispatchUnknown(r) ==
    /\ pc[r] = "dispatch"
    /\ req[r].name \notin {"vector_add", "vector_search", "list_tables"}
    /\ Throw(r, UnknownToolError(req[r].name))
    /\ UNCHANGED <<tables, req, lv, pre, embeds, sent, raised, created, hadFailure, running, startup, accepted>>

(***************************************************************************)
(* A collaborator fails: the awaited call rejects, and the catch block     *)
(* around that await runs.                                                 *)
(***************************************************************************)
StoreFault(r) ==
    /\ pc[r] \in {"openTable", "add", "createTable", "schema", "toArray", "tableNames"}
    /\ \E err \in StoreFaults :
        /\ Raise(r, err)
        /\ CASE req[r].name = "vector_add" /\ pc[r] \in {"openTable", "add"} -> AddCatch(r, err)
             [] req[r].name = "vector_add" /\ pc[r] = "createTable" -> Throw(r, err)
             [] req[r].name = "vector_search" -> SearchCatch(r, err)
             [] OTHER -> ListCatch(r, err)
    /\ UNCHANGED <<tables, req, lv, pre, embeds, sent, created, hadFailure, running, startup, accepted>>

\* generateEmbedding throws (a non-2xx answer, a failed fetch); its own catch
\* logs and rethrows
EmbeddingFault(r) ==
    /\ At(r, "vector_search", "embedding")
    /\ Raise(r, OllamaError)
    /\ SearchCatch(r, OllamaError)
    /\ UNCHANGED <<tables, req, lv, pre, embeds, sent, created, hadFailure, running, startup, accepted>>

(***************************************************************************)
(* Specifications.  Spec: calls are handled one at a time and the          *)
(* collaborators do not fail.  SpecFault: one at a time, and any awaited   *)
(* collaborator call may fail.  SpecConcurrent: vector_add calls handled   *)
(* concurrently, the collaborators not failing.                            *)
(***************************************************************************)
NoneInHand == \A s \in Slots : pc[s] = "idle"

Step(r) ==
    \/ DispatchAdd(r)
    \/ AddOpenTable(r)
    \/ AddTableAdd(r)
    \/ AddCreateTable(r)
    \/ DispatchSearch(r)
    \/ SearchOpenTable(r)
    \/ SearchEmbedding(r)
    \/ SearchSchema(r)
    \/ SearchToArray(r)
    \/ DispatchList(r)
    \/ ListTableNames(r)
    \/ DispatchUnknown(r)
    \/ Deliver(r)

Next ==
    \/ Boot
    \/ NoneInHand /\ Call(1)
    \/ Step(1)

NextFault ==
    \/ Boot
    \/ NoneInHand /\ Call(1)
    \/ Step(1)
    \/ StoreFault(1)
    \/ EmbeddingFault(1)

\* requests are handled as they arrive: the handlers of two requests interleave
\* at their awaits
NextConcurrent ==
    \/ Boot
    \/ \E r \in Slots :
        \/ CallFrom(r, ConcurrentCalls)
        \/ DispatchAdd(r)
        \/ AddOpenTable(r)
        \/ AddTableAdd(r)
        \/ AddCreateTable(r)
        \/ Deliver(r)

Spec == Init /\ [][Next]_vars

SpecConcurrent == Init /\ [][NextConcurrent]_vars

SpecFault == Init /\ [][NextFault]_vars

(***************************************************************************)
(* Properties.                                                             *)
(***************************************************************************)
Done(r, tool) == pc[r] = "done" /\ req[r].name = tool
Table(r) == Val(req[r].args.table_name)
Submitted(r) == Val(req[r].args.vectors)
Count(s, x) == Cardinality({i \in 1..Len(s) : s[i] = x})
Mentions(text, phrase) ==
    \E i \in 1..(Len(text) - Len(phrase) + 1) : SubSeq(text, i, i + Len(phrase) - 1) = phrase

\* C1: a valid vector_add naming a table that did not exist ends with the table
\* created, holding exactly the submitted records, and answers isError = false.
C1_AddCreatesTable ==
    \A r \in Slots :
        (Done(r, "vector_add") /\ ValidAddArgs(req[r].args) /\ Table(r) \notin DOMAIN pre[r])
        => /\ Table(r) \in DOMAIN tables
           /\ tables[Table(r)].rows = Submitted(r)
           /\ resp[r].isError = FALSE

C1_Witness ==
    \E r \in Slots :
        /\ Done(r, "vector_add") /\ ValidAddArgs(req[r].args)
        /\ Table(r) \notin DOMAIN pre[r]
        /\ Len(Submitted(r)) = MaxRows
        /\ Table(r) \in DOMAIN tables
        /\ ~resp[r].isError

\* C2: a valid vector_add naming an existing table leaves the table with its
\* earlier record count plus vectors.length, and changes no other table.
C2_AddAppends ==
    \A r \in Slots :
        (Done(r, "vector_add") /\ ValidAddArgs(req[r].args) /\ Table(r) \in DOMAIN pre[r])
        => /\ DOMAIN tables = DOMAIN pre[r]
           /\ Len(tables[Table(r)].rows) = Len(pre[r][Table(r)].rows) + Len(Submitted(r))
           /\ \A n \in DOMAIN tables \ {Table(r)} : tables[n] = pre[r][n]

C2_Witness ==
    \E r \in Slots :
        /\ Done(r, "vector_add") /\ ValidAddArgs(req[r].args)
        /\ Table(r) \in DOMAIN pre[r]
        /\ Len(pre[r][Table(r)].rows) >= 1
        /\ Len(Submitted(r)) >= 1
        /\ DOMAIN tables # {Table(r)}

\* C3: a vector_search with neither query_vector nor query_text is rejected by
\* validation with isError = true, and issues no store operation and no
\* embedding request.
C3_NeitherRejected ==
    \A r \in Slots :
        (Done(r, "vector_search")
            /\ ~IsDef(req[r].args.query_vector) /\ ~IsDef(req[r].args.query_text))
        => /\ resp[r].isError
           /\ resp[r].text = <<"Error:", "Invalid arguments for", "vector_search", ":", "ZodError">>
           /\ ops[r] = <<>>
           /\ embeds[r] = <<>>

C3_Witness ==
    \E r \in Slots :
        /\ Done(r, "vector_search")
        /\ ~IsDef(req[r].args.query_vector) /\ ~IsDef(req[r].args.query_text)
        /\ IsDef(req[r].args.table_name)
        /\ Table(r) \in DOMAIN tables
        /\ resp[r].isError

\* the fixed-size-list columns of a table: its vector fields
VectorColumns(name) ==
    {tables[name].schema[i].name :
        i \in {j \in 1..Len(tables[name].schema) : tables[name].schema[j].typeId = 16}}

\* C4: in a successful vector_search, no returned record carries the table's
\* vector field when with_vectors is false or omitted, and every returned record
\* carries it when with_vectors is true.
C4_VectorFieldVisibility ==
    \A r \in Slots :
        (Done(r, "vector_search") /\ ~resp[r].isError)
        => \A i \in 1..Len(resp[r].rows) : \A col \in VectorColumns(Table(r)) :
              IF req[r].args.with_vectors = Some(TRUE)
              THEN col \in DOMAIN resp[r].rows[i]
              ELSE col \notin DOMAIN resp[r].rows[i]

C4_Witness ==
    \E r \in Slots :
        /\ Done(r, "vector_search") /\ ~resp[r].isError
        /\ req[r].args.with_vectors # Some(TRUE)
        /\ Len(resp[r].rows) >= 1
        /\ VectorColumns(Table(r)) # {}
        /\ "title" \in DOMAIN resp[r].rows[1]

TextOnly(a) == TruthyString(a.query_text) /\ ~IsDef(a.query_vector)

\* C5, as claimed: every valid vector_search that supplies query_text invokes
\* the embedding collaborator exactly once, and the vector passed to
\* vectorSearch is the embedding returned.
C5_EveryTextSearchEmbeds ==
    \A r \in Slots :
        (Done(r, "vector_search") /\ ValidSearchArgs(req[r].args)
            /\ IsDef(req[r].args.query_text))
        => /\ Count(ops[r], "embedding") = 1
           /\ IsDef(sent[r]) => (Len(embeds[r]) = 1 /\ Val(sent[r]) = embeds[r][1])

\* C5, amended: a valid vector_search that supplies a non-empty query_text and
\* no query_vector, on a table that opens, invokes the embedding collaborator
\* exactly once, and the vector passed to vectorSearch (when the search is
\* issued) is exactly the embedding returned.
C5_TextOnlySearchEmbedsOnce ==
    \A r \in Slots :
        (Done(r, "vector_search") /\ ValidSearchArgs(req[r].args)
            /\ TextOnly(req[r].args) /\ Table(r) \in DOMAIN pre[r])
        => /\ Count(ops[r], "embedding") = 1
           /\ Len(embeds[r]) = 1
           /\ IsDef(sent[r]) => Val(sent[r]) = embeds[r][1]

C5_Witness ==
    \E r \in Slots :
        /\ Done(r, "vector_search") /\ TextOnly(req[r].args)
        /\ ~resp[r].isError
        /\ Len(resp[r].rows) >= 1
        /\ sent[r] = Some(OtherLongVec)
        /\ embeds[r] = <<OtherLongVec>>

\* C6, as claimed: the response text of a vector_add that adds n records to a
\* table T that did not exist mentions "Added n vectors to table T".
C6_CreateMentionsAdded ==
    \A r \in Slots :
        (Done(r, "vector_add") /\ ValidAddArgs(req[r].args)
            /\ Table(r) \notin DOMAIN pre[r] /\ ~resp[r].isError
            /\ Len(Submitted(r)) >= 1)
        => Mentions(resp[r].text,
                    <<"Added", ToString(Len(Submitted(r))), "vectors to table", Table(r)>>)

\* C6, amended: the response text of a vector_add that adds n records to a
\* table T that did not exist is "Created table T and added n vectors";
\* "Added n vectors to table T" is the text when T existed already.
C6_CreateSaysCreated ==
    \A r \in Slots :
        (Done(r, "vector_add") /\ ValidAddArgs(req[r].args) /\ ~resp[r].isError)
        => resp[r].text =
              IF Table(r) \in DOMAIN pre[r]
              THEN <<"Added", ToString(Len(Submitted(r))), "vectors to table", Table(r)>>
              ELSE <<"Created table", Table(r), "and added",
                     ToString(Len(Submitted(r))), "vectors">>

C6_Witness ==
    \E r \in Slots :
        /\ Done(r, "vector_add") /\ ValidAddArgs(req[r].args)
        /\ Table(r) = "docs" /\ pre[r] = EmptyStore
        /\ Submitted(r) = <<RecA>>
        /\ resp[r].text = <<"Created table", "docs", "and added", "1", "vectors">>

\* C7, as claimed: on a table created through vector_add with vectors of any
\* length d >= 1, a vector_search with a query_vector of length d and limit n
\* answers isError = false with at most n records, none carrying the vector field.
C7_SearchWorksForAnyDimension ==
    \A r \in Slots :
        (Done(r, "vector_search") /\ ValidSearchArgs(req[r].args)
            /\ IsDef(req[r].args.query_vector) /\ IsDef(req[r].args.limit)
            /\ req[r].args.with_vectors # Some(TRUE)
            /\ Table(r) \in DOMAIN tables
            /\ tables[Table(r)].rows # <<>>
            /\ \A i \in 1..Len(tables[Table(r)].rows) :
                  Len(tables[Table(r)].rows[i].vector) = Len(Val(req[r].args.query_vector)))
        => /\ ~resp[r].isError
           /\ Len(resp[r].rows) <= Val(req[r].args.limit)
           /\ \A i \in 1..Len(resp[r].rows) : "vector" \notin DOMAIN resp[r].rows[i]

\* C8: list_tables answers with exactly the names of the tables in the store:
\* none on a store where no vector_add has succeeded, and afterwards the tables
\* successful vector_add calls created, whatever searches and failed calls came
\* in between.
C8_ListTablesExact ==
    /\ DOMAIN tables = created
    /\ \A r \in Slots :
          Done(r, "list_tables")
          => /\ ~resp[r].isError
             /\ resp[r].kind = "names"
             /\ resp[r].names = DOMAIN tables
             /\ resp[r].names = created

C8_Witness ==
    \E r \in Slots :
        /\ Done(r, "list_tables")
        /\ hadFailure
        /\ resp[r].names = {"docs"}

Last(s) == s[Len(s)]

InvalidCall(r) ==
    \/ req[r].name = "vector_add" /\ ~ValidAddArgs(req[r].args)
    \/ req[r].name = "vector_search" /\ ~ValidSearchArgs(req[r].args)
    \/ req[r].name \notin {"vector_add", "vector_search", "list_tables"}

\* the last error a collaborator raised was not the "does not exist" that
\* vector_add recovers from
Unrecovered(r) ==
    /\ raised[r] # <<>>
    /\ ~(req[r].name = "vector_add" /\ Includes(Last(raised[r]), "does not exist"))

\* C9: every call, whatever its name and arguments and whatever error a
\* collaborator raises, ends with exactly one response: isError = false on
\* success, isError = true with text "Error: <message>" on any failure; the
\* server keeps running.
C9_OneResponsePerCall ==
    /\ accepted => (running /\ boot = "serving")
    /\ \A r \in Slots :
        /\ pc[r] # "done" => nresp[r] = 0
        /\ pc[r] = "done" =>
            /\ nresp[r] = 1
            /\ IsDef(thrown[r]) =>
                  (resp[r].isError /\ resp[r].kind = "text"
                     /\ resp[r].text = <<"Error:">> \o Val(thrown[r]))
            /\ ~IsDef(thrown[r]) =>
                  (~resp[r].isError /\ resp[r].kind \in {"text", "rows", "names"})
            /\ (InvalidCall(r) \/ Unrecovered(r)) => (IsDef(thrown[r]) /\ resp[r].isError)

C9_Witness ==
    \E r \in Slots :
        /\ pc[r] = "done"
        /\ hadFailure
        /\ Unrecovered(r)
        /\ Last(raised[r]) = IoError
        /\ resp[r].isError
        /\ nresp[r] = 1

\* C10, as claimed: every collaborator error raised while handling a call, other
\* than the recovered "does not exist" on add, reaches the caller as a failed
\* response whose message wraps the error with the operation and the table name,
\* for vector_add as for vector_search.
C10_ErrorsCarryContext ==
    \A r \in Slots :
        (pc[r] = "done" /\ IsDef(thrown[r]) /\ raised[r] # <<>>)
        => LET err == Last(raised[r])
               context == SubSeq(resp[r].text, 1, Len(resp[r].text) - Len(err))
           IN /\ resp[r].isError
              /\ Len(context) > 1
              /\ resp[r].text = context \o err
              /\ req[r].name \in {"vector_add", "vector_search"} => Includes(context, Table(r))

RejectedByValidation(r) ==
    /\ resp[r].isError
    /\ resp[r].text = <<"Error:", "Invalid arguments for", req[r].name, ":", "ZodError">>
    /\ ops[r] = <<>>

\* C11, as claimed: validation accepts a vector_search only when exactly one of
\* query_vector and query_text is supplied; a call supplying both is rejected
\* as a validation failure, as is a call supplying neither.
C11_ExactlyOneAccepted ==
    \A r \in Slots :
        (Done(r, "vector_search")
            /\ IsDef(req[r].args.query_vector) = IsDef(req[r].args.query_text))
        => RejectedByValidation(r)

\* C11, amended: validation accepts a vector_search (its other arguments being
\* well-formed) exactly when at least one of query_vector and query_text is
\* supplied; a call supplying neither is rejected as a validation failure, and a
\* call supplying both is accepted and searches with query_vector, without
\* asking for an embedding.
C11_AtLeastOneAccepted ==
    \A r \in Slots :
        (Done(r, "vector_search") /\ IsDef(req[r].args.table_name)
            /\ (IsDef(req[r].args.distance_type)
                   => Val(req[r].args.distance_type) \in {"l2", "cosine", "dot"}))
        => /\ RejectedByValidation(r)
                <=> (~IsDef(req[r].args.query_vector) /\ ~IsDef(req[r].args.query_text))
           /\ (IsDef(req[r].args.query_vector) /\ IsDef(req[r].args.query_text))
                => /\ ops[r][1] = "openTable"
                   /\ Count(ops[r], "embedding") = 0
                   /\ IsDef(sent[r]) => sent[r] = req[r].args.query_vector

C11_Witness ==
    \E r \in Slots :
        /\ Done(r, "vector_search")
        /\ req[r].args.query_vector = Some(LongVec)
        /\ req[r].args.query_text = Some("hello")
        /\ ~resp[r].isError
        /\ Len(resp[r].rows) >= 1
        /\ sent[r] = Some(LongVec)

C13_ConcurrentAddsBothSucceed ==
    \A r, s \in Slots :
        (/\ r # s
         /\ Done(r, "vector_add") /\ Done(s, "vector_add")
         /\ Table(r) = Table(s)
         /\ raised[r] # <<>> /\ raised[r][1] = <<"Table", Table(r), "does not exist">>
         /\ raised[s] # <<>> /\ raised[s][1] = <<"Table", Table(s), "does not exist">>)
        => /\ ~resp[r].isError
           /\ ~resp[s].isError
           /\ Table(r) \in DOMAIN tables
           /\ Len(tables[Table(r)].rows) = Len(Submitted(r)) + Len(Submitted(s))
           /\ \A rec \in Records :
                 Count(tables[Table(r)].rows, rec)
                    = Count(Submitted(r), rec) + Count(Submitted(s), rec)

\* C14, as claimed: vector_add calls createTable only when openTable itself
\* failed; an error raised by table.add on a table that was opened, whatever its
\* message, is surfaced as a failed response carrying that error and never leads
\* to a createTable call.
C14_AddErrorNeverCreates ==
    \A r \in Slots :
        req[r].name = "vector_add"
        => /\ Includes(ops[r], "createTable") => ops[r] = <<"openTable", "createTable">>
           /\ (pc[r] = "done" /\ Includes(ops[r], "add") /\ raised[r] # <<>>)
                 => /\ resp[r].isError
                    /\ resp[r].text = <<"Error:">> \o raised[r][1]

====
